---- MODULE Spec2Model ----
(***************************************************************************)
(* jsmessengerbot: the webhook pipeline of MessengerBot (src/index.js),    *)
(* the Scene state machine and SceneManager middleware (src/scenes.js)     *)
(* and the session stores (src/scenes.js, src/sessionStore.js).            *)
(*                                                                         *)
(* Texts, triggers and payloads are sequences of characters.  A session    *)
(* object is a record: scene is session.__scene ("" when the key is        *)
(* absent), hasStep says whether session.step holds a number and step is   *)
(* that number, keys are the other keys present.  Objects live in heap     *)
(* and are named by their index, so that two references to one object      *)
(* (ctx.session and an entry of MemorySessionStore.sessions) stay aliased. *)
(***************************************************************************)
EXTENDS Integers, Sequences, FiniteSets, TLC

\* ------------------------------------------------------------------ bounds
\* a scene has at most MaxSteps steps; a bot makes at most MaxRegistrations
\* registration calls (use, register, on, command, hears, action, catch)
\* before start
MaxSteps == 2
MaxRegistrations == 3
\* a webhook delivery has at most MaxEntries entries
MaxEntries == 2

\* ------------------------------------------------------------------ inputs
Users == {"u1"}
Senders == Users \cup {"u2"}
SceneNames == {"registration"}
DataKeys == {"firstName"}
Paths == {"sessions.json", "scenes.json"}
Payloads == {<<"P">>, <<"Q">>}
Texts == {<<>>, <<"a">>, <<"a", "b">>, <<"b">>}

NoScene == ""
NoObj == 0
ObjIds == 1..(Cardinality(Senders) + 1)

EmptySession == [scene |-> NoScene, hasStep |-> FALSE, step |-> 0, keys |-> {}]

\* the file every default store uses
SESSION_FILE == "sessions.json"

\* ------------------------------------------------------------ text matching
\* String.prototype.includes, and RegExp.prototype.test of an unanchored
\* literal pattern
Includes(text, pat) ==
  \E i \in 1..(Len(text) - Len(pat) + 1) : SubSeq(text, i, i + Len(pat) - 1) = pat

\* one trigger of command(...): string equality, or regex test
CommandMatches(text, trig) ==
  IF trig.re THEN Includes(text, trig.pat) ELSE text = trig.pat

\* one pattern of hears(...): substring, or regex test
HearsMatches(text, trig) == Includes(text, trig.pat)

\* the wrapper's loop over its array finds a matching trigger
AnyMatch(h, text) ==
  /\ text # <<>>
  /\ \E i \in 1..Len(h.trigs) :
       IF h.kind = "command" THEN CommandMatches(text, h.trigs[i])
       ELSE HearsMatches(text, h.trigs[i])

\* ------------------------------------------------------------------- scenes
\* the cursor keys of a session
Cursor(session) ==
  [scene |-> session.scene, hasStep |-> session.hasStep, step |-> session.step]

\* an entry of the per-event call log: the user callback that ran (k: its
\* registry, id: its position there), what it returned, for a step handler what
\* it did to the cursor (eff, to), and the cursor, ctx.scene and
\* ctx._sceneStopped it was called with
Call(k, id, ret, eff, to, c) ==
  [k |-> k, id |-> id, ret |-> ret, eff |-> eff, to |-> to,
   cur |-> Cursor(c.session), att |-> c.scene, stopped |-> c.stopped]

\* what one invocation of a step handler does: its return value, whether it
\* writes a data key, and whether it calls ctx.scene.leave(ctx) or assigns
\* ctx.session.step
StepBehaviours(n) ==
  [ret : {"false", "undefined"}, wr : BOOLEAN, eff : {"none", "leave"}, to : {0}]
    \cup [ret : {"false", "undefined"}, wr : BOOLEAN, eff : {"goto"}, to : 0..n]

\* a leave that deletes only the cursor keys
LeaveCursorOnly(c) ==
  [c EXCEPT !.session = [EmptySession EXCEPT !.keys = c.session.keys],
            !.scene = NoScene, !.stopped = TRUE]

\* Scene.leave
Leave(c) ==
  [c EXCEPT !.session = EmptySession, !.scene = NoScene, !.stopped = TRUE]

\* this.steps[step](ctx) with behaviour b
StepFn(c, step, b) ==
  LET logged == [c EXCEPT !.calls = Append(@, Call("step", step, b.ret, b.eff, b.to, c))]
      written == IF b.wr
                 THEN [logged EXCEPT !.session.keys = @ \cup {"firstName"}]
                 ELSE logged
  IN  CASE b.eff = "leave" -> Leave(written)
        [] b.eff = "goto" -> [written EXCEPT !.session.hasStep = TRUE,
                                             !.session.step = b.to]
        [] OTHER -> written

\* the auto-increment without the test of the return value
AdvanceGuardAnyResult(c, prevStep, b) ==
  /\ c.session.hasStep
  /\ c.session.step = prevStep
  /\ c.text # <<>>

\* the auto-increment without the test of ctx.text
AdvanceGuardAnyEvent(c, prevStep, b) ==
  /\ c.session.hasStep
  /\ c.session.step = prevStep
  /\ b.ret # "false"

\* the auto-increment without the test that the handler left the step alone
AdvanceGuardAnyStep(c, prevStep, b) ==
  /\ c.text # <<>>
  /\ b.ret # "false"

\* the condition of the auto-increment
AdvanceGuard(c, prevStep, b) ==
  /\ c.session.hasStep
  /\ c.session.step = prevStep
  /\ c.text # <<>>
  /\ b.ret # "false"

\* a handle that leaves as soon as the step index reaches the step count
HandleLeaveAtEnd(n, c, b) ==
  LET step == IF c.session.hasStep THEN c.session.step ELSE 0 IN
  IF step < n
  THEN LET after == StepFn(c, step, b)
           next == IF AdvanceGuard(after, step, b)
                   THEN [after EXCEPT !.session.step = @ + 1]
                   ELSE after
       IN  IF next.session.hasStep /\ next.session.step >= n THEN Leave(next) ELSE next
  ELSE Leave(c)

\* a handle whose bound test is off by one
HandleOffByOne(n, c, b) ==
  LET step == IF c.session.hasStep THEN c.session.step ELSE 0 IN
  IF step <= n
  THEN LET after == StepFn(c, step, b) IN
       IF AdvanceGuard(after, step, b)
       THEN [after EXCEPT !.session.step = @ + 1]
       ELSE after
  ELSE Leave(c)

\* Scene.handle of a scene with n steps
Handle(n, c, b) ==
  LET step == IF c.session.hasStep THEN c.session.step ELSE 0 IN
  IF step < n
  THEN LET after == StepFn(c, step, b) IN
       IF AdvanceGuard(after, step, b)
       THEN [after EXCEPT !.session.step = @ + 1]
       ELSE after
  ELSE Leave(c)

\* an enter that starts the scene on an empty session
SceneEnterFresh(name, n, c, b) ==
  Handle(n, [c EXCEPT !.session = [EmptySession EXCEPT !.scene = name, !.hasStep = TRUE],
                      !.scene = name], b)

\* an enter that keeps the step index it finds
SceneEnterKeepStep(name, n, c, b) ==
  Handle(n, [c EXCEPT !.session.scene = name, !.scene = name], b)

\* Scene.enter of the scene called name, with n steps
SceneEnter(name, n, c, b) ==
  Handle(n, [c EXCEPT !.session.scene = name, !.session.hasStep = TRUE,
                      !.session.step = 0, !.scene = name], b)

\* ------------------------------------------------------------------- state
VARIABLES
  middlewares,  \* MessengerBot.middlewares
  handlers,     \* MessengerBot.handlers: message and postback lists
  actions,      \* MessengerBot.actions: payload -> callback (0: no entry)
  areg,         \* the payload arrays of the action(...) calls made, in order
  scenes,       \* SceneManager.scenes: name -> registered?, number of steps
  sceneStore,   \* SceneManager.sessionStore: its type and file
  errorHandler, \* MessengerBot.errorHandler is set
  started,      \* start() was called: the webhook routes exist
  files,        \* the session files: path -> user -> session
  memSessions,  \* MemorySessionStore.sessions of the SceneManager
  heap,         \* the session objects
  delivery,     \* the webhook request: its entries, those not yet processed, the
                \* number of entries whose event was processed, the response
  pc,           \* where the POST /webhook handler stands
  event,        \* entry.messaging[0]
  ctx,          \* the Context of the event
  index,        \* runMiddlewares: index
  arg,          \* runMiddlewares: the i of the pending runner(i)
  stack,        \* interceptors waiting for their next() to return
  handled,      \* the dispatch loop's handled flag
  hidx,         \* position of the dispatch loop
  calls,        \* user callbacks invoked for the current event, in order
  loaded,       \* the session as it was when the current operation began
  parked,       \* a POST /webhook handler suspended at an await
  kv            \* session stores used on their own: own properties, last result

config == <<middlewares, handlers, actions, areg, scenes, sceneStore, errorHandler, started>>
stores == <<files, memSessions, heap, kv>>
run == <<delivery, pc, event, ctx, index, arg, stack, handled, hidx, calls, loaded, parked>>
vars == <<config, stores, run>>

NoEvent ==
  [type |-> "none", sender |-> "", text |-> <<>>, payload |-> <<>>, attachment |-> "none"]
NoCtx == [session |-> NoObj, scene |-> NoScene, stopped |-> FALSE]

\* no request yet; a request waits for its response (res "pending") until
\* res.sendStatus(200)
NoDelivery ==
  [object |-> "none", body |-> <<>>, rest |-> <<>>, done |-> 0, res |-> "none",
   mode |-> "", token |-> "", batch |-> <<>>]

\* no handler is suspended
NoParked ==
  [status |-> "none", delivery |-> NoDelivery, event |-> NoEvent, scene |-> NoScene,
   stopped |-> FALSE, session |-> EmptySession, index |-> -1, arg |-> 0,
   handled |-> FALSE, hidx |-> 1, calls |-> <<>>, loaded |-> EmptySession,
   seen |-> EmptySession, stored |-> FALSE]

\* the stores are not used on their own
NoKv == [impl |-> "none"]

\* ------------------------------------------------------------------- stores
Range(f) == {f[x] : x \in DOMAIN f}

\* the object a fresh {} or a parsed JSON value is put in
FreshObj(mem) == CHOOSE o \in ObjIds : o \notin Range(mem) /\
                   \A p \in ObjIds : p \notin Range(mem) => o <= p

\* drop the objects nothing refers to any more
Collect(h, mem, keep) ==
  [o \in ObjIds |-> IF o \in Range(mem) \cup keep THEN h[o] ELSE EmptySession]

\* FileSessionStore.get / sessionStore.get: a new object parsed from the file
FileGet(f, path, id, h, mem) ==
  LET o == FreshObj(mem) IN
  [obj |-> o, heap |-> Collect([h EXCEPT ![o] = f[path][id]], mem, {o})]

\* MemorySessionStore.get: this.sessions[id] || {}
MemGet(id, h, mem) ==
  IF mem[id] # NoObj
  THEN [obj |-> mem[id], heap |-> Collect(h, mem, {})]
  ELSE LET o == FreshObj(mem) IN
       [obj |-> o, heap |-> Collect([h EXCEPT ![o] = EmptySession], mem, {o})]

\* a set that keeps the scene cursor of the file when the session has none
\* a set that writes a file holding the given session only
FileSetAlone(f, path, id, session) ==
  [f EXCEPT ![path] = [u \in DOMAIN @ |-> IF u = id THEN session ELSE EmptySession]]

FileSetMerging(f, path, id, session) ==
  [f EXCEPT ![path][id] = IF session.scene = NoScene /\ @.scene # NoScene
                          THEN [session EXCEPT !.scene = f[path][id].scene,
                                               !.hasStep = f[path][id].hasStep,
                                               !.step = f[path][id].step]
                          ELSE session]

\* FileSessionStore.set / sessionStore.set: read, assign, write
FileSet(f, path, id, session) == [f EXCEPT ![path][id] = session]

\* MemorySessionStore.set
MemSet(mem, id, obj) == [mem EXCEPT ![id] = obj]

\* the context as the scene code sees it
View(c, h, text, log) ==
  [session |-> h[c.session], scene |-> c.scene, stopped |-> c.stopped,
   text |-> text, calls |-> log, attachment |-> event.attachment]

\* SceneManager.sessionStore.get(id)
SceneGet(id, h, mem) ==
  IF sceneStore.type = "memory" THEN MemGet(id, h, mem)
  ELSE FileGet(files, sceneStore.path, id, h, mem)

\* files and memSessions after SceneManager.sessionStore.set(id, the object obj)
SceneSetFiles(id, obj, h) ==
  IF sceneStore.type = "memory" THEN files
  ELSE FileSet(files, sceneStore.path, id, h[obj])

SceneSetMem(id, obj) ==
  IF sceneStore.type = "memory" THEN MemSet(memSessions, id, obj) ELSE memSessions

\* ------------------------------------------------------------- registration
Trig(re, pat) == [re |-> re, pat |-> pat]
Handler(kind, trigs, fn) == [kind |-> kind, trigs |-> trigs, fn |-> fn]

\* the callbacks a bot registers: a function of its own ("cb"), or for a scene
\* name the handler SceneManager.enter(name) returns
MwKinds == {"scene", "pass", "block"}

\* interceptors of a bot of its own: one that calls next twice, one that throws
ChainKinds == {"pass", "block", "twice", "throw"}

\* the handlers of a bot that drives a scene
SceneHandlers ==
  {Handler("command", <<Trig(FALSE, <<"a", "b">>)>>, "registration"),
   Handler("hears", <<Trig(FALSE, <<"a">>)>>, "cb"),
   Handler("on", <<>>, "cb")}

\* the trigger arrays of a bot without scenes
CommandTrigs == {<<Trig(FALSE, <<"a", "b">>)>>,
                 <<Trig(FALSE, <<"b">>), Trig(TRUE, <<"a">>)>>}
HearsTrigs == {<<Trig(FALSE, <<"a">>)>>}
PayloadArrays == {<<<<"P">>>>, <<<<"P">>, <<"Q">>>>}

Registered == {s \in SceneNames : scenes[s].reg}

Registrations ==
  Len(middlewares) + Len(handlers.message) + Len(handlers.postback)
    + Len(areg) + Cardinality(Registered) + (IF errorHandler THEN 1 ELSE 0)

CanRegister == ~started /\ pc = "idle" /\ Registrations < MaxRegistrations

\* MessengerBot.use
Use(m) ==
  /\ CanRegister
  /\ middlewares' = Append(middlewares, m)
  /\ UNCHANGED <<handlers, actions, areg, scenes, sceneStore, errorHandler, started, stores, run>>

\* MessengerBot.on
On(ev, h) ==
  /\ CanRegister
  /\ handlers' = IF ev \in DOMAIN handlers
                 THEN [handlers EXCEPT ![ev] = Append(@, h)]
                 ELSE handlers
  /\ UNCHANGED <<middlewares, actions, areg, scenes, sceneStore, errorHandler, started, stores, run>>

\* MessengerBot.command
Command(trigs, fn) == On("message", Handler("command", trigs, fn))

\* MessengerBot.hears
Hears(trigs, fn) == On("message", Handler("hears", trigs, fn))

\* an action(...) that keeps the callback a payload already has
ActionAssignFirst(acts, arr, fn) ==
  [p \in Payloads |-> IF p \in Range(arr) /\ acts[p] = 0 THEN fn ELSE acts[p]]

\* the loop of MessengerBot.action: this.actions[payload] = fn
ActionAssign(acts, arr, fn) ==
  [p \in Payloads |-> IF p \in Range(arr) THEN fn ELSE acts[p]]

\* MessengerBot.action; the callback is named by the number of the call
Action(arr) ==
  /\ CanRegister
  /\ areg' = Append(areg, arr)
  /\ actions' = ActionAssign(actions, arr, Len(areg) + 1)
  /\ UNCHANGED <<middlewares, handlers, scenes, sceneStore, errorHandler, started, stores, run>>

\* MessengerBot.catch, MessengerBot.useErrorHandler
Catch ==
  /\ CanRegister
  /\ errorHandler' = TRUE
  /\ UNCHANGED <<middlewares, handlers, actions, areg, scenes, sceneStore, started, stores, run>>

\* SceneManager.register of new Scene(name, steps) with n steps
Register(name, n) ==
  /\ CanRegister
  /\ scenes' = [scenes EXCEPT ![name] = [reg |-> TRUE, n |-> n]]
  /\ UNCHANGED <<middlewares, handlers, actions, areg, sceneStore, errorHandler, started, stores, run>>

\* MessengerBot.start
Start ==
  /\ ~started /\ pc = "idle"
  /\ started' = TRUE
  /\ UNCHANGED <<middlewares, handlers, actions, areg, scenes, sceneStore, errorHandler,
                 stores, run>>

\* ------------------------------------------------------------ POST /webhook
MessageEvent(u, text) ==
  [type |-> "message", sender |-> u, text |-> text, payload |-> <<>>, attachment |-> "none"]
PostbackEvent(u, payload) ==
  [type |-> "postback", sender |-> u, text |-> <<>>, payload |-> payload,
   attachment |-> "none"]

\* the type of the attachment of event.message.attachments ("none": no
\* attachment), and a message that carries one
AttachmentTypes == {"image", "file", "audio", "video", "location", "contact"}
AttachmentEvent(u, text, a) == [MessageEvent(u, text) EXCEPT !.attachment = a]
AttachmentEvents ==
  {AttachmentEvent(u, t, a) : u \in Users, t \in {<<>>, <<"a">>}, a \in AttachmentTypes}
Events ==
  {MessageEvent(u, t) : u \in Users, t \in Texts}
    \cup {PostbackEvent(u, p) : u \in Users, p \in Payloads}

\* POST /webhook with a body whose object is 'page' and whose entries carry
\* the events of body
Post(body) ==
  /\ started /\ pc = "idle"
  /\ delivery' = [NoDelivery EXCEPT !.object = "page", !.body = body, !.rest = body,
                                   !.res = "pending"]
  /\ pc' = "entry"
  /\ UNCHANGED <<config, stores, event, ctx, index, arg, stack, handled, hidx, calls, loaded, parked>>

\* an entry whose messaging[0] has no sender, and an entry that has no
\* messaging array at all
NoSenderEntry == [NoEvent EXCEPT !.type = "nosender"]
NoMessagingEntry == [NoEvent EXCEPT !.type = "nomessaging"]

\* entry.messaging[0]: the first event of the entry's messaging array,
\* undefined (an entry the loop skips) when the array is empty
Messaging0(entry) == IF entry = <<>> THEN NoSenderEntry ELSE entry[1]

\* POST /webhook with a body whose object is 'page' and whose entries each
\* carry a messaging array of events; the loop reads messaging[0] of each
PostBatch(batch) ==
  /\ started /\ pc = "idle"
  /\ LET body == [i \in 1..Len(batch) |-> Messaging0(batch[i])] IN
       delivery' = [NoDelivery EXCEPT !.object = "page", !.body = body, !.rest = body,
                                      !.res = "pending", !.batch = batch]
  /\ pc' = "entry"
  /\ UNCHANGED <<config, stores, event, ctx, index, arg, stack, handled, hidx, calls, loaded, parked>>

\* a loop that turns to the next entry while the save of the previous one
\* is still to come
ReceiveBeforeSave(e) ==
  /\ pc \in {"entry", "save"} /\ delivery.rest # <<>> /\ e = Head(delivery.rest)
  /\ delivery' = [delivery EXCEPT !.rest = Tail(@)]
  /\ LET g == FileGet(files, SESSION_FILE, e.sender, heap, memSessions) IN
       /\ heap' = g.heap
       /\ ctx' = [session |-> g.obj, scene |-> NoScene, stopped |-> FALSE]
       /\ loaded' = g.heap[g.obj]
  /\ event' = e
  /\ pc' = "runner" /\ index' = -1 /\ arg' = 0 /\ stack' = <<>>
  /\ handled' = FALSE /\ hidx' = 1 /\ calls' = <<>>
  /\ UNCHANGED <<config, files, memSessions, parked, kv>>

\* the loop over body.entry reaches the entry of event e: new Context, the
\* session load, and the call of runMiddlewares
Receive(e) ==
  /\ pc = "entry" /\ delivery.rest # <<>> /\ e = Head(delivery.rest)
  /\ delivery' = [delivery EXCEPT !.rest = Tail(@)]
  /\ LET g == FileGet(files, SESSION_FILE, e.sender, heap, memSessions) IN
       /\ heap' = g.heap
       /\ ctx' = [session |-> g.obj, scene |-> NoScene, stopped |-> FALSE]
       /\ loaded' = g.heap[g.obj]
  /\ event' = e
  /\ pc' = "runner" /\ index' = -1 /\ arg' = 0 /\ stack' = <<>>
  /\ handled' = FALSE /\ hidx' = 1 /\ calls' = <<>>
  /\ UNCHANGED <<config, files, memSessions, parked, kv>>

\* the loop over body.entry reaches an entry without event or sender: continue
SkipEntry ==
  /\ pc = "entry" /\ delivery.rest # <<>>
  /\ Head(delivery.rest).type = "nosender"
  /\ delivery' = [delivery EXCEPT !.rest = Tail(@)]
  /\ UNCHANGED <<config, stores, pc, event, ctx, index, arg, stack, handled, hidx, calls, loaded, parked>>

\* the loop over body.entry reaches an entry without messaging:
\* entry.messaging[0] throws a TypeError, which leaves the handler
EntryThrows ==
  /\ pc = "entry" /\ delivery.rest # <<>>
  /\ Head(delivery.rest).type = "nomessaging"
  /\ pc' = "throw"
  /\ UNCHANGED <<config, stores, delivery, event, ctx, index, arg, stack, handled, hidx, calls, loaded, parked>>

\* POST /webhook with a body whose object is not 'page': res.sendStatus(404)
PostOther ==
  /\ started /\ pc = "idle"
  /\ delivery' = [NoDelivery EXCEPT !.object = "other", !.res = "404"]
  /\ UNCHANGED <<config, stores, pc, event, ctx, index, arg, stack, handled, hidx, calls, loaded, parked>>

\* this.verifyToken, and the hub.mode and hub.verify_token a GET may carry
\* ("": the parameter is missing)
VerifyToken == "secret"
Modes == {"subscribe", "unsubscribe", ""}
Tokens == {VerifyToken, "guess", ""}

\* GET /webhook: the challenge, or 403
Get(mode, token) ==
  /\ started /\ pc = "idle"
  /\ delivery' = [NoDelivery EXCEPT
                    !.object = "get", !.mode = mode, !.token = token,
                    !.res = IF mode = "subscribe" /\ token = VerifyToken
                            THEN "challenge" ELSE "403"]
  /\ UNCHANGED <<config, stores, pc, event, ctx, index, arg, stack, handled, hidx, calls, loaded, parked>>

\* this.middlewares[i] for the pending runner(i)
Mw == IF arg < Len(middlewares) THEN middlewares[arg + 1] ELSE "none"

\* a runner that runs whatever index it is called with
SkippedNever(i, idx) == FALSE

\* if (i <= index) return
Skipped(i, idx) == i <= idx

\* runner(i) goes on to this.middlewares[i]
Runs == pc = "runner" /\ ~Skipped(arg, index)

\* an interceptor waiting for its next() to return: its index, and whether
\* it calls next() once more after that
Frame(i, again) == [i |-> i, again |-> again]

\* the call fn(ctx, next) of interceptor i in the call log; eff tells how the
\* interceptor goes on: it calls next ("next"), returns without ("return") or
\* throws ("throw")
MwCall(i, eff) == Call("mw", i, "undefined", eff, 0, View(ctx, heap, event.text, calls))

\* the call of this.errorHandler(err, ctx) by the catch of runner(i)
CatchCall(i, log) == Call("catch", i, "undefined", "none", 0, View(ctx, heap, event.text, log))

\* runner(i) was called again for an index that has run: it returns at once
RunnerSkip ==
  /\ pc = "runner" /\ Skipped(arg, index)
  /\ pc' = "return"
  /\ UNCHANGED <<config, stores, event, delivery, ctx, index, arg, stack, handled, hidx, calls, loaded, parked>>

\* runner(i) beyond the last interceptor
RunnerEnd ==
  /\ Runs /\ Mw = "none"
  /\ index' = arg /\ pc' = "return"
  /\ UNCHANGED <<config, stores, event, delivery, ctx, arg, stack, handled, hidx, calls, loaded, parked>>

\* an interceptor that only calls next (middlewares/logger.js), up to its call
MwPass ==
  /\ Runs /\ Mw = "pass"
  /\ calls' = Append(calls, MwCall(arg, "next"))
  /\ index' = arg /\ stack' = Append(stack, Frame(arg, FALSE)) /\ arg' = arg + 1
  /\ UNCHANGED <<config, stores, pc, event, delivery, ctx, handled, hidx, loaded, parked>>

\* an interceptor that calls next twice, up to its first call
MwTwice ==
  /\ Runs /\ Mw = "twice"
  /\ calls' = Append(calls, MwCall(arg, "next"))
  /\ index' = arg /\ stack' = Append(stack, Frame(arg, TRUE)) /\ arg' = arg + 1
  /\ UNCHANGED <<config, stores, pc, event, delivery, ctx, handled, hidx, loaded, parked>>

\* a runner that goes on to the next interceptor when one returns
MwBlockFallsThrough ==
  /\ Runs /\ Mw = "block"
  /\ calls' = Append(calls, MwCall(arg, "return"))
  /\ index' = arg /\ arg' = arg + 1
  /\ UNCHANGED <<config, stores, pc, event, delivery, ctx, stack, handled, hidx, loaded, parked>>

\* an interceptor that returns without calling next
MwBlock ==
  /\ Runs /\ Mw = "block"
  /\ calls' = Append(calls, MwCall(arg, "return"))
  /\ index' = arg /\ pc' = "return"
  /\ UNCHANGED <<config, stores, event, delivery, ctx, arg, stack, handled, hidx, loaded, parked>>

\* an interceptor that writes a key of ctx.session and calls next, up to its
\* call
MwWrite ==
  /\ Runs /\ Mw = "write"
  /\ heap' = [heap EXCEPT ![ctx.session].keys = @ \cup {"firstName"}]
  /\ calls' = Append(calls, MwCall(arg, "next"))
  /\ index' = arg /\ stack' = Append(stack, Frame(arg, FALSE)) /\ arg' = arg + 1
  /\ UNCHANGED <<config, files, memSessions, kv, pc, event, delivery, ctx, handled, hidx, loaded, parked>>

\* a catch that calls the error handler and throws the error again
CaughtAlsoThrows(handler) == "throw"

\* a catch that drops the error when there is no error handler
CaughtSwallows(handler) == "return"

\* where the catch of runner(i) leaves: it returns after the error handler,
\* or throws the error again
Caught(handler) == IF handler THEN "return" ELSE "throw"

\* the call log after the catch of runner(i)
CatchLog(i, log) == IF errorHandler THEN Append(log, CatchCall(i, log)) ELSE log

\* an interceptor that throws, and the catch of its runner
MwThrow ==
  /\ Runs /\ Mw = "throw"
  /\ calls' = CatchLog(arg, Append(calls, MwCall(arg, "throw")))
  /\ index' = arg /\ pc' = Caught(errorHandler)
  /\ UNCHANGED <<config, stores, event, delivery, ctx, arg, stack, handled, hidx, loaded, parked>>

\* a test that resumes whatever scene name the session records
SceneActiveAnyName(session, c) ==
  /\ session.scene # NoScene
  /\ ~c.stopped

\* SceneManager.middleware: the scene named in the session is resumed
SceneActive(session, c) ==
  /\ session.scene # NoScene
  /\ session.scene \in Registered
  /\ ~c.stopped

\* SceneManager.middleware when it resumes the scene: get, handle, set
MwSceneResume(b) ==
  /\ Runs /\ Mw = "scene"
  /\ LET g == SceneGet(event.sender, heap, memSessions)
         session == g.heap[g.obj]
     IN  /\ SceneActive(session, ctx)
         /\ b \in StepBehaviours(scenes[session.scene].n)
         /\ LET c == Handle(scenes[session.scene].n,
                            View([ctx EXCEPT !.session = g.obj, !.scene = session.scene],
                                 g.heap, event.text,
                                 Append(calls, MwCall(arg, "return"))), b)
                h == [g.heap EXCEPT ![g.obj] = c.session]
            IN  /\ heap' = h
                /\ ctx' = [session |-> g.obj, scene |-> c.scene, stopped |-> c.stopped]
                /\ calls' = c.calls
                /\ files' = SceneSetFiles(event.sender, g.obj, h)
                /\ memSessions' = SceneSetMem(event.sender, g.obj)
         /\ loaded' = session
  /\ index' = arg /\ pc' = "return"
  /\ UNCHANGED <<config, event, delivery, arg, stack, handled, hidx, parked, kv>>

\* SceneManager.middleware when the step handler of the resumed scene throws
\* after what it did to the session: the error leaves handle and the
\* interceptor before the set, and reaches the catch of the runner
MwSceneThrow(b) ==
  /\ Runs /\ Mw = "scene"
  /\ LET g == SceneGet(event.sender, heap, memSessions)
         session == g.heap[g.obj]
         step == IF session.hasStep THEN session.step ELSE 0
     IN  /\ SceneActive(session, ctx)
         /\ step < scenes[session.scene].n
         /\ b \in StepBehaviours(scenes[session.scene].n) /\ b.ret = "undefined"
         /\ LET c == StepFn(View([ctx EXCEPT !.session = g.obj, !.scene = session.scene],
                                 g.heap, event.text,
                                 Append(calls, MwCall(arg, "throw"))),
                            step, [b EXCEPT !.ret = "throw"])
            IN  /\ heap' = [g.heap EXCEPT ![g.obj] = c.session]
                /\ ctx' = [session |-> g.obj, scene |-> c.scene, stopped |-> c.stopped]
                /\ calls' = CatchLog(arg, c.calls)
         /\ loaded' = session
  /\ index' = arg /\ pc' = Caught(errorHandler)
  /\ UNCHANGED <<config, files, memSessions, kv, event, delivery, arg, stack, handled, hidx, parked>>

\* SceneManager.middleware when no scene is resumed, up to its call of next
MwSceneNext ==
  /\ Runs /\ Mw = "scene"
  /\ LET g == SceneGet(event.sender, heap, memSessions) IN
       /\ ~SceneActive(g.heap[g.obj], ctx)
       /\ heap' = g.heap
       /\ ctx' = [ctx EXCEPT !.session = g.obj]
       /\ loaded' = g.heap[g.obj]
  /\ calls' = Append(calls, MwCall(arg, "next"))
  /\ index' = arg /\ stack' = Append(stack, Frame(arg, FALSE)) /\ arg' = arg + 1
  /\ UNCHANGED <<config, files, memSessions, pc, event, delivery, handled, hidx, parked, kv>>

\* the interceptor whose next() returns
Top == middlewares[stack[Len(stack)].i + 1]
Pop == SubSeq(stack, 1, Len(stack) - 1)

\* the rest of an interceptor after its last call of next
ReturnPass ==
  /\ pc = "return" /\ stack # <<>> /\ Top \in {"pass", "twice"}
  /\ ~stack[Len(stack)].again
  /\ stack' = Pop
  /\ UNCHANGED <<config, stores, pc, event, delivery, ctx, index, arg, handled, hidx, calls, loaded, parked>>

\* the rest of the interceptor that writes the session, after its next
ReturnWrite ==
  /\ pc = "return" /\ stack # <<>> /\ Top = "write"
  /\ stack' = Pop
  /\ UNCHANGED <<config, stores, pc, event, delivery, ctx, index, arg, handled, hidx, calls, loaded, parked>>

\* the first next() of an interceptor that calls next twice has returned: it
\* calls next() again, that is runner(i + 1)
ReturnTwice ==
  /\ pc = "return" /\ stack # <<>> /\ stack[Len(stack)].again
  /\ stack' = Append(Pop, Frame(stack[Len(stack)].i, FALSE))
  /\ arg' = stack[Len(stack)].i + 1
  /\ pc' = "runner"
  /\ UNCHANGED <<config, stores, event, delivery, ctx, index, handled, hidx, calls, loaded, parked>>

\* the await next() of an interceptor throws: the error leaves the
\* interceptor and reaches the catch of its runner
Unwind ==
  /\ pc = "throw" /\ stack # <<>>
  /\ calls' = CatchLog(stack[Len(stack)].i, calls)
  /\ pc' = Caught(errorHandler)
  /\ stack' = Pop
  /\ UNCHANGED <<config, stores, event, delivery, ctx, index, arg, handled, hidx, loaded, parked>>

\* the error leaves the POST /webhook handler: nothing of it runs any more,
\* neither the rest of the loop over body.entry nor res.sendStatus
Reject ==
  /\ pc = "throw" /\ stack = <<>>
  /\ heap' = Collect(heap, memSessions, {})
  /\ pc' = "idle" /\ event' = NoEvent /\ ctx' = NoCtx
  /\ index' = -1 /\ arg' = 0
  /\ handled' = FALSE /\ hidx' = 1 /\ calls' = <<>> /\ loaded' = EmptySession
  /\ UNCHANGED <<config, files, memSessions, delivery, stack, parked, kv>>

\* the rest of SceneManager.middleware after next: the session is saved
ReturnScene ==
  /\ pc = "return" /\ stack # <<>> /\ Top = "scene"
  /\ files' = SceneSetFiles(event.sender, ctx.session, heap)
  /\ memSessions' = SceneSetMem(event.sender, ctx.session)
  /\ stack' = Pop
  /\ UNCHANGED <<config, heap, pc, event, delivery, ctx, index, arg, handled, hidx, calls, loaded, parked, kv>>

\* a dispatch that starts as soon as the innermost runner has returned
ChainDoneEarly ==
  /\ pc = "return"
  /\ pc' = "message"
  /\ UNCHANGED <<config, stores, event, delivery, ctx, index, arg, stack, handled, hidx, calls, loaded, parked>>

\* runMiddlewares returns to the webhook handler
ChainDone ==
  /\ pc = "return" /\ stack = <<>>
  /\ pc' = "message"
  /\ UNCHANGED <<config, stores, event, delivery, ctx, index, arg, stack, handled, hidx, calls, loaded, parked>>

\* ----------------------------------------------------------------- dispatch
Rets == {"true", "undefined"}

\* the handler SceneManager.enter(name) returns, called as handler hid
EnterHandler(name, c, hid, b) ==
  LET logged == [c EXCEPT !.calls = Append(@, Call("message", hid, "undefined", "none", 0, c))]
  IN  IF name \in Registered
      THEN SceneEnter(name, scenes[name].n, logged, b)
      ELSE logged

\* the callback fn of handler h is called; a callback "cb" returns ret
Callback(h, c, hid, ret, b) ==
  IF h.fn = "cb"
  THEN [c EXCEPT !.calls = Append(@, Call("message", hid, ret, "none", 0, c))]
  ELSE EnterHandler(h.fn, c, hid, b)

FnReturn(h, ret) == IF h.fn = "cb" THEN ret ELSE "undefined"

\* the handlers onPhoto, onDocument, onLocation and onContact register, and
\* the attachment each of them calls its callback for
AttachmentKinds == {"photo", "document", "location", "contact"}
Accepts(kind, a) ==
  CASE kind = "photo" -> a = "image"
    [] kind = "document" -> a \in {"file", "audio", "video"}
    [] kind = "location" -> a = "location"
    [] kind = "contact" -> a = "contact"
    [] OTHER -> FALSE

\* a command or hears wrapper that returns nothing after its callback
WrapperNoResult(h, c, hid, ret, b) ==
  IF h.kind = "on"
  THEN [c |-> Callback(h, c, hid, ret, b), result |-> FnReturn(h, ret)]
  ELSE IF AnyMatch(h, c.text)
       THEN [c |-> Callback(h, c, hid, ret, b), result |-> "undefined"]
       ELSE [c |-> c, result |-> "false"]

\* the function that on, command, hears or one of onPhoto, onDocument,
\* onLocation and onContact pushed on handlers.message
Wrapper(h, c, hid, ret, b) ==
  IF h.kind = "on"
  THEN [c |-> Callback(h, c, hid, ret, b), result |-> FnReturn(h, ret)]
  ELSE IF h.kind \in AttachmentKinds
       THEN IF Accepts(h.kind, c.attachment)
            THEN [c |-> Callback(h, c, hid, ret, b), result |-> "undefined"]
            ELSE [c |-> c, result |-> "undefined"]
       ELSE IF AnyMatch(h, c.text)
            THEN [c |-> Callback(h, c, hid, ret, b), result |-> "true"]
            ELSE [c |-> c, result |-> "false"]

\* what the step handler that a callback starts may do
CallbackSteps(h) ==
  IF h.fn \in Registered THEN StepBehaviours(scenes[h.fn].n) ELSE StepBehaviours(0)

\* a loop that calls every handler
LoopRunsAlways(flag) == TRUE

\* if (!handled)
LoopRuns(flag) == ~flag

\* a loop that never sets handled
NextHandledKept(flag, result) == flag

\* if (result === true) handled = true
NextHandled(flag, result) == flag \/ result = "true"

InMessageLoop ==
  /\ pc = "message"
  /\ event.type = "message" /\ event.text # <<>>
  /\ hidx <= Len(handlers.message)

\* one turn of the loop over handlers.message that calls the handler
MessageCall(ret, b) ==
  /\ InMessageLoop /\ LoopRuns(handled)
  /\ b \in CallbackSteps(handlers.message[hidx])
  /\ LET r == Wrapper(handlers.message[hidx], View(ctx, heap, event.text, calls),
                      hidx, ret, b)
     IN  /\ heap' = [heap EXCEPT ![ctx.session] = r.c.session]
         /\ ctx' = [ctx EXCEPT !.scene = r.c.scene, !.stopped = r.c.stopped]
         /\ calls' = r.c.calls
         /\ handled' = NextHandled(handled, r.result)
  /\ hidx' = hidx + 1
  /\ UNCHANGED <<config, files, memSessions, pc, event, delivery, index, arg, stack, loaded, parked, kv>>

\* one turn of the loop over handlers.message in which the callback throws:
\* the error leaves the wrapper and the loop
MessageThrow ==
  /\ InMessageLoop /\ LoopRuns(handled)
  /\ handlers.message[hidx].kind # "on" => AnyMatch(handlers.message[hidx], event.text)
  /\ calls' = Append(calls, Call("message", hidx, "throw", "none", 0,
                                 View(ctx, heap, event.text, calls)))
  /\ pc' = "throw"
  /\ UNCHANGED <<config, stores, event, delivery, ctx, index, arg, stack, handled, hidx, loaded, parked>>

\* axios.post for a send: it resolves with the response, or rejects
AxiosPost(ok) ==
  IF ok THEN [threw |-> FALSE, value |-> "response"]
  ELSE [threw |-> TRUE, value |-> "error"]

\* a sendMessage whose catch throws the error again
SendMessageRethrows(ok) ==
  LET post == AxiosPost(ok) IN
  IF post.threw
  THEN [threw |-> TRUE, value |-> post.value, logged |-> TRUE]
  ELSE [threw |-> FALSE, value |-> post.value, logged |-> FALSE]

\* MessengerBot.sendMessage: the try around axios.post, the catch that logs
SendMessage(ok) ==
  LET post == AxiosPost(ok) IN
  IF post.threw
  THEN [threw |-> FALSE, value |-> "undefined", logged |-> TRUE]
  ELSE [threw |-> FALSE, value |-> post.value, logged |-> FALSE]

\* one turn of the loop over handlers.message whose callback awaits
\* ctx.reply(...) and then returns ret; eff tells how the send went
MessageReply(ok, ret) ==
  /\ InMessageLoop /\ LoopRuns(handled)
  /\ handlers.message[hidx].kind # "on" => AnyMatch(handlers.message[hidx], event.text)
  /\ LET sent == SendMessage(ok)
         result == IF sent.threw THEN "throw" ELSE ret
     IN  /\ calls' = Append(calls, Call("message", hidx, result,
                                        IF sent.logged THEN "sendfail" ELSE "sent", 0,
                                        View(ctx, heap, event.text, calls)))
         /\ IF sent.threw
            THEN pc' = "throw" /\ UNCHANGED <<handled, hidx>>
            ELSE /\ pc' = pc /\ hidx' = hidx + 1
                 /\ handled' = NextHandled(handled,
                                  Wrapper(handlers.message[hidx],
                                          View(ctx, heap, event.text, calls),
                                          hidx, ret, CHOOSE b \in StepBehaviours(0) : TRUE).result)
  /\ UNCHANGED <<config, stores, event, delivery, ctx, index, arg, stack, loaded, parked>>

\* a callback of the bot's own, called by the loop over handlers.message,
\* awaits the HTTP request of ctx.reply: the POST /webhook handler is
\* suspended with its Context and its session object, and the server is free
\* for the next request
Yield ==
  /\ InMessageLoop /\ LoopRuns(handled)
  /\ handlers.message[hidx].fn = "cb"
  /\ handlers.message[hidx].kind # "on" => AnyMatch(handlers.message[hidx], event.text)
  /\ stack = <<>> /\ parked.status = "none"
  /\ parked' = [status |-> "parked", delivery |-> delivery, event |-> event,
                scene |-> ctx.scene, stopped |-> ctx.stopped,
                session |-> heap[ctx.session], index |-> index, arg |-> arg,
                handled |-> handled, hidx |-> hidx, calls |-> calls,
                loaded |-> loaded, seen |-> EmptySession,
                stored |-> ctx.session \in Range(memSessions)]
  /\ heap' = Collect(heap, memSessions, {})
  /\ delivery' = NoDelivery
  /\ pc' = "idle" /\ event' = NoEvent /\ ctx' = NoCtx
  /\ index' = -1 /\ arg' = 0
  /\ handled' = FALSE /\ hidx' = 1 /\ calls' = <<>> /\ loaded' = EmptySession
  /\ UNCHANGED <<config, files, memSessions, kv, stack>>

\* the HTTP request of the suspended callback is over and no other handler
\* runs: the suspended handler goes on; seen keeps what the session file
\* holds for its user at that moment
\* the message loop calls a handler made by SceneManager.enter whose step
\* handler, behaving as b, awaits the HTTP request of ctx.reply as its last
\* statement: the writes of enter and of the step are made, and the POST
\* /webhook handler is suspended until the request is answered
YieldInStep(ret, b) ==
  /\ InMessageLoop /\ LoopRuns(handled)
  /\ handlers.message[hidx].fn # "cb"
  /\ AnyMatch(handlers.message[hidx], event.text)
  /\ b \in CallbackSteps(handlers.message[hidx])
  /\ scenes[handlers.message[hidx].fn].reg /\ scenes[handlers.message[hidx].fn].n >= 1
  /\ stack = <<>> /\ parked.status = "none"
  /\ LET r == Wrapper(handlers.message[hidx], View(ctx, heap, event.text, calls),
                      hidx, ret, b)
     IN  /\ heap' = Collect([heap EXCEPT ![ctx.session] = r.c.session], memSessions, {})
         /\ parked' = [status |-> "parked", delivery |-> delivery, event |-> event,
                       scene |-> r.c.scene, stopped |-> r.c.stopped,
                       session |-> r.c.session, index |-> index, arg |-> arg,
                       handled |-> NextHandled(handled, r.result), hidx |-> hidx + 1,
                       calls |-> r.c.calls, loaded |-> loaded, seen |-> EmptySession,
                       stored |-> ctx.session \in Range(memSessions)]
  /\ delivery' = NoDelivery
  /\ pc' = "idle" /\ event' = NoEvent /\ ctx' = NoCtx
  /\ index' = -1 /\ arg' = 0
  /\ handled' = FALSE /\ hidx' = 1 /\ calls' = <<>> /\ loaded' = EmptySession
  /\ UNCHANGED <<config, files, memSessions, kv, stack>>

Resume ==
  /\ pc = "idle" /\ parked.status = "parked"
  /\ IF parked.stored
     THEN /\ heap' = heap
          /\ ctx' = [session |-> memSessions[parked.event.sender],
                     scene |-> parked.scene, stopped |-> parked.stopped]
     ELSE LET o == FreshObj(memSessions) IN
          /\ heap' = Collect([heap EXCEPT ![o] = parked.session], memSessions, {o})
          /\ ctx' = [session |-> o, scene |-> parked.scene, stopped |-> parked.stopped]
  /\ delivery' = parked.delivery
  /\ pc' = "message" /\ event' = parked.event
  /\ index' = parked.index /\ arg' = parked.arg
  /\ handled' = parked.handled /\ hidx' = parked.hidx
  /\ calls' = parked.calls /\ loaded' = parked.loaded
  /\ parked' = [parked EXCEPT !.status = "resumed",
                              !.seen = files[SESSION_FILE][parked.event.sender]]
  /\ UNCHANGED <<config, files, memSessions, kv, stack>>

\* one turn of the loop over handlers.message once handled is set
MessageSkip ==
  /\ InMessageLoop /\ ~LoopRuns(handled)
  /\ hidx' = hidx + 1
  /\ UNCHANGED <<config, stores, pc, event, delivery, ctx, index, arg, stack, handled, calls, loaded, parked>>

\* the message part is over, or the event has no message text
MessageDone ==
  /\ pc = "message" /\ ~InMessageLoop
  /\ pc' = "postback"
  /\ UNCHANGED <<config, stores, event, delivery, ctx, index, arg, stack, handled, hidx, calls, loaded, parked>>

\* the event has no postback
PostbackNone ==
  /\ pc = "postback" /\ event.type # "postback"
  /\ pc' = "save"
  /\ UNCHANGED <<config, stores, event, delivery, ctx, index, arg, stack, handled, hidx, calls, loaded, parked>>

\* the lookup this.actions[payload] and the call of the action handler
PostbackAction(ret) ==
  /\ pc = "postback" /\ event.type = "postback"
  /\ IF actions[event.payload] # 0
     THEN /\ calls' = Append(calls, Call("action", actions[event.payload], ret, "none", 0,
                                         View(ctx, heap, event.text, calls)))
          /\ handled' = NextHandled(handled, ret)
     ELSE UNCHANGED <<calls, handled>>
  /\ pc' = "pbloop" /\ hidx' = 1
  /\ UNCHANGED <<config, stores, event, delivery, ctx, index, arg, stack, loaded, parked>>

InPostbackLoop == pc = "pbloop" /\ hidx <= Len(handlers.postback)

\* one turn of the loop over handlers.postback that calls the handler
PostbackCall(ret) ==
  /\ InPostbackLoop /\ LoopRuns(handled)
  /\ calls' = Append(calls, Call("postback", hidx, ret, "none", 0,
                                 View(ctx, heap, event.text, calls)))
  /\ handled' = NextHandled(handled, ret)
  /\ hidx' = hidx + 1
  /\ UNCHANGED <<config, stores, pc, event, delivery, ctx, index, arg, stack, loaded, parked>>

\* one turn of the loop over handlers.postback once handled is set
PostbackSkip ==
  /\ InPostbackLoop /\ ~LoopRuns(handled)
  /\ hidx' = hidx + 1
  /\ UNCHANGED <<config, stores, pc, event, delivery, ctx, index, arg, stack, handled, calls, loaded, parked>>

PostbackDone ==
  /\ pc = "pbloop" /\ ~InPostbackLoop
  /\ pc' = "save"
  /\ UNCHANGED <<config, stores, event, delivery, ctx, index, arg, stack, handled, hidx, calls, loaded, parked>>

\* the final this.sessionStore.set(senderId, ctx.session); the Context is dropped
Save ==
  /\ pc = "save"
  /\ files' = FileSet(files, SESSION_FILE, event.sender, heap[ctx.session])
  /\ heap' = Collect(heap, memSessions, {})
  /\ pc' = "entry" /\ event' = NoEvent /\ ctx' = NoCtx
  /\ index' = -1 /\ arg' = 0 /\ stack' = <<>>
  /\ handled' = FALSE /\ hidx' = 1 /\ calls' = <<>> /\ loaded' = EmptySession
  /\ delivery' = [delivery EXCEPT !.done = @ + 1]
  /\ UNCHANGED <<config, memSessions, parked, kv>>

\* the loop over body.entry is over: res.sendStatus(200)
Ack ==
  /\ pc = "entry" /\ delivery.rest = <<>>
  /\ delivery' = [delivery EXCEPT !.res = "200"]
  /\ pc' = "idle"
  /\ UNCHANGED <<config, stores, event, ctx, index, arg, stack, handled, hidx, calls, loaded, parked>>

\* ------------------------------------------------------------ specifications
SceneStores ==
  {[type |-> "memory", path |-> ""]} \cup {[type |-> "file", path |-> p] : p \in Paths}

InitProcess ==
  /\ middlewares = <<>>
  /\ handlers = [message |-> <<>>, postback |-> <<>>]
  /\ actions = [p \in Payloads |-> 0]
  /\ areg = <<>>
  /\ scenes = [s \in SceneNames |-> [reg |-> FALSE, n |-> 0]]
  /\ errorHandler = FALSE
  /\ started = FALSE
  /\ memSessions = [u \in Senders |-> NoObj]
  /\ heap = [o \in ObjIds |-> EmptySession]
  /\ delivery = NoDelivery
  /\ pc = "idle" /\ event = NoEvent /\ ctx = NoCtx
  /\ index = -1 /\ arg = 0 /\ stack = <<>>
  /\ handled = FALSE /\ hidx = 1 /\ calls = <<>> /\ loaded = EmptySession
  /\ parked = NoParked

\* a process that starts without session files
InitBot ==
  /\ InitProcess /\ kv = NoKv
  /\ files = [p \in Paths |-> [u \in Senders |-> EmptySession]]

\* a bot with a SceneManager
Init == InitBot /\ sceneStore \in SceneStores

Chain ==
  \/ RunnerEnd
  \/ MwPass
  \/ MwBlock
  \/ \E b \in StepBehaviours(MaxSteps) : MwSceneResume(b)
  \/ MwSceneNext
  \/ ReturnPass
  \/ ReturnScene
  \/ ChainDone

Next ==
  \/ \E m \in MwKinds : Use(m)
  \/ \E n \in 0..MaxSteps : Register("registration", n)
  \/ \E h \in SceneHandlers : On("message", h)
  \/ Start
  \/ \E e \in Events : Post(<<e>>)
  \/ \E e \in Events : Receive(e)
  \/ Chain
  \/ \E ret \in Rets, b \in StepBehaviours(MaxSteps) : MessageCall(ret, b)
  \/ MessageSkip
  \/ MessageDone
  \/ PostbackNone
  \/ \E ret \in Rets : PostbackAction(ret)
  \/ PostbackDone
  \/ Save
  \/ Ack

Spec == Init /\ [][Next]_vars

\* a bot whose step handlers never assign session.step themselves
CursorKeeping(n) == {b \in StepBehaviours(n) : b.eff # "goto"}

NextCursor ==
  \/ \E m \in MwKinds : Use(m)
  \/ \E n \in 0..MaxSteps : Register("registration", n)
  \/ \E h \in SceneHandlers : On("message", h)
  \/ Start
  \/ \E e \in Events : Post(<<e>>)
  \/ \E e \in Events : Receive(e)
  \/ RunnerEnd
  \/ MwPass
  \/ MwBlock
  \/ \E b \in CursorKeeping(MaxSteps) : MwSceneResume(b)
  \/ MwSceneNext
  \/ ReturnPass
  \/ ReturnScene
  \/ ChainDone
  \/ \E ret \in Rets, b \in CursorKeeping(MaxSteps) : MessageCall(ret, b)
  \/ MessageSkip
  \/ MessageDone
  \/ PostbackNone
  \/ \E ret \in Rets : PostbackAction(ret)
  \/ PostbackDone
  \/ Save
  \/ Ack

SpecCursor == Init /\ [][NextCursor]_vars

\* a bot without middleware and scenes: the dispatch of registered handlers
InitDispatch == InitBot /\ sceneStore = [type |-> "memory", path |-> ""]

NextDispatch ==
  \/ \E t \in CommandTrigs : Command(t, "cb")
  \/ \E t \in HearsTrigs : Hears(t, "cb")
  \/ \E ev \in {"message", "postback"} : On(ev, Handler("on", <<>>, "cb"))
  \/ \E arr \in PayloadArrays : Action(arr)
  \/ Start
  \/ \E e \in Events : Post(<<e>>)
  \/ \E e \in Events : Receive(e)
  \/ RunnerEnd
  \/ ChainDone
  \/ \E ret \in Rets, b \in StepBehaviours(0) : MessageCall(ret, b)
  \/ MessageSkip
  \/ MessageDone
  \/ PostbackNone
  \/ \E ret \in Rets : PostbackAction(ret)
  \/ \E ret \in Rets : PostbackCall(ret)
  \/ PostbackSkip
  \/ PostbackDone
  \/ Save
  \/ Ack

SpecDispatch == InitDispatch /\ [][NextDispatch]_vars

\* a bot with interceptors of its own and an error handler, without scenes
NextChain ==
  \/ \E m \in ChainKinds : Use(m)
  \/ Catch
  \/ On("message", Handler("on", <<>>, "cb"))
  \/ Start
  \/ \E e \in Events : Post(<<e>>)
  \/ \E e \in Events : Receive(e)
  \/ RunnerSkip
  \/ RunnerEnd
  \/ MwPass
  \/ MwTwice
  \/ MwBlock
  \/ MwThrow
  \/ ReturnPass
  \/ ReturnTwice
  \/ Unwind
  \/ Reject
  \/ ChainDone
  \/ \E ret \in Rets, b \in StepBehaviours(0) : MessageCall(ret, b)
  \/ MessageThrow
  \/ MessageSkip
  \/ MessageDone
  \/ PostbackNone
  \/ \E ret \in Rets : PostbackAction(ret)
  \/ PostbackDone
  \/ Save
  \/ Ack

SpecChain == InitDispatch /\ [][NextChain]_vars

\* deliveries of several entries to a bot whose interceptors and handlers
\* may throw
DeliveryEvents == {MessageEvent("u1", <<"a">>), PostbackEvent("u1", <<"P">>)}
Bodies == UNION {[1..k -> DeliveryEvents] : k \in 1..MaxEntries}

NextDelivery ==
  \/ \E m \in {"pass", "throw"} : Use(m)
  \/ Catch
  \/ On("message", Handler("on", <<>>, "cb"))
  \/ Start
  \/ \E body \in Bodies : Post(body)
  \/ \E e \in Events : Receive(e)
  \/ RunnerEnd
  \/ MwPass
  \/ MwThrow
  \/ ReturnPass
  \/ Unwind
  \/ Reject
  \/ ChainDone
  \/ \E ret \in Rets, b \in StepBehaviours(0) : MessageCall(ret, b)
  \/ MessageThrow
  \/ MessageSkip
  \/ MessageDone
  \/ PostbackNone
  \/ \E ret \in Rets : PostbackAction(ret)
  \/ PostbackDone
  \/ Save
  \/ Ack

SpecDelivery == InitDispatch /\ [][NextDelivery]_vars

\* deliveries whose entries carry a messaging array of zero, one or two
\* events, to a bot with interceptors that write the session and a handler
\* that may throw
BatchEvents == {MessageEvent("u1", <<"a">>), MessageEvent("u1", <<"b">>)}
BatchEntries ==
  {<<>>} \cup {<<e>> : e \in BatchEvents}
         \cup {<<e, f>> : <<e, f>> \in {p \in BatchEvents \X BatchEvents : p[1] # p[2]}}
Batches == UNION {[1..k -> BatchEntries] : k \in 1..MaxEntries}

NextBatch ==
  \/ Use("write")
  \/ On("message", Handler("on", <<>>, "cb"))
  \/ Start
  \/ \E batch \in Batches : PostBatch(batch)
  \/ \E e \in Events : Receive(e)
  \/ SkipEntry
  \/ RunnerEnd
  \/ MwWrite
  \/ ReturnWrite
  \/ ChainDone
  \/ \E ret \in Rets, b \in StepBehaviours(0) : MessageCall(ret, b)
  \/ MessageThrow
  \/ Reject
  \/ MessageSkip
  \/ MessageDone
  \/ PostbackNone
  \/ Save
  \/ Ack

SpecBatch == InitDispatch /\ [][NextBatch]_vars

\* events of two users, where the event of one user arrives while a scene
\* step of the other user's event is suspended, to a bot with the scene
\* middleware
IsolationEvents == {MessageEvent(u, <<"a", "b">>) : u \in Senders}

\* step handlers that write the session or not, await ctx.reply and return
AwaitingSteps == {b \in CursorKeeping(MaxSteps) : b.eff = "none" /\ b.ret = "undefined"}

NextIsolation ==
  \/ Use("scene")
  \/ Register("registration", MaxSteps)
  \/ On("message", Handler("command", <<Trig(FALSE, <<"a", "b">>)>>, "registration"))
  \/ Start
  \/ /\ parked.status # "resumed"
     /\ \E e \in IsolationEvents :
          /\ parked.status = "parked" => e.sender # parked.event.sender
          /\ Post(<<e>>)
  \/ \E e \in IsolationEvents : Receive(e)
  \/ RunnerEnd
  \/ \E b \in CursorKeeping(MaxSteps) : MwSceneResume(b)
  \/ MwSceneNext
  \/ ReturnScene
  \/ ChainDone
  \/ \E b \in CursorKeeping(MaxSteps) : MessageCall("undefined", b)
  \/ \E b \in AwaitingSteps : YieldInStep("undefined", b)
  \/ Resume
  \/ MessageSkip
  \/ MessageDone
  \/ PostbackNone
  \/ Save
  \/ Ack

SpecIsolation == Init /\ [][NextIsolation]_vars

\* a bot with attachment handlers that receives messages with an attachment,
\* with and without text
NextAttach ==
  \/ \E k \in AttachmentKinds : On("message", Handler(k, <<>>, "cb"))
  \/ \E t \in HearsTrigs : Hears(t, "cb")
  \/ Start
  \/ \E e \in AttachmentEvents : Post(<<e>>)
  \/ \E e \in AttachmentEvents : Receive(e)
  \/ RunnerEnd
  \/ ChainDone
  \/ \E ret \in Rets, b \in StepBehaviours(0) : MessageCall(ret, b)
  \/ MessageSkip
  \/ MessageDone
  \/ PostbackNone
  \/ Save
  \/ Ack

SpecAttach == InitDispatch /\ [][NextAttach]_vars

\* the requests the webhook routes answer, for a bot whose handlers do not
\* throw: deliveries whose entries carry an event, an event without sender,
\* or no messaging array
AckEntries == DeliveryEvents \cup {NoSenderEntry, NoMessagingEntry}
AckBodies == UNION {[1..k -> AckEntries] : k \in 0..MaxEntries}

NextAck ==
  \/ On("message", Handler("on", <<>>, "cb"))
  \/ Start
  \/ \E body \in AckBodies : Post(body)
  \/ PostOther
  \/ \E mode \in Modes, token \in Tokens : Get(mode, token)
  \/ \E e \in Events : Receive(e)
  \/ SkipEntry
  \/ EntryThrows
  \/ Reject
  \/ RunnerEnd
  \/ ChainDone
  \/ \E ret \in Rets, b \in StepBehaviours(0) : MessageCall(ret, b)
  \/ MessageSkip
  \/ MessageDone
  \/ PostbackNone
  \/ \E ret \in Rets : PostbackAction(ret)
  \/ PostbackDone
  \/ Save
  \/ Ack

SpecAck == InitDispatch /\ [][NextAck]_vars

\* ------------------------------------------- the session stores, on their own
\* the three store implementations: MemorySessionStore, FileSessionStore and
\* the sessionStore object
StoreImpls == {"memory", "file", "default"}

\* identifiers a caller may pass; "constructor" is also the name of a member
\* that every object inherits from Object.prototype
StoreIds == {"u1", "u2", "constructor"}
InheritedNames == {"constructor"}

\* session objects: the keys they have and the value of each, a JSON value
\* or undefined
DocKeys == {"a"}
DocValues == {"1", "undefined"}
Docs == UNION {[K -> DocValues] : K \in SUBSET DocKeys}
EmptyDoc == [k \in {} |-> "1"]

\* JSON.parse(JSON.stringify(doc)): keys whose value is undefined are dropped
Json(doc) == [k \in {x \in DOMAIN doc : doc[x] # "undefined"} |-> doc[k]]

\* what a store keeps of the sessions object: the memory store the object
\* itself, the file stores what JSON.stringify writes and JSON.parse reads
Kept(impl, sessions) ==
  IF impl = "memory" THEN sessions
  ELSE [id \in DOMAIN sessions |-> Json(sessions[id])]

\* a value a get returns: a session object, or a function
Object(doc) == [kind |-> "object", doc |-> doc]
Inherited == [kind |-> "function", doc |-> EmptyDoc]

\* sessions[id] || {}: an own property, else a member inherited from
\* Object.prototype, else undefined and so a new {}
GetResult(sessions, id) ==
  IF id \in DOMAIN sessions THEN Object(sessions[id])
  ELSE IF id \in InheritedNames THEN Inherited
  ELSE Object(EmptyDoc)

\* a store of one of the implementations, empty; given records, for each
\* identifier, the session of its latest set that no clear followed
InitStore ==
  /\ InitProcess
  /\ sceneStore = [type |-> "memory", path |-> ""]
  /\ files = [p \in Paths |-> [u \in Senders |-> EmptySession]]
  /\ \E impl \in StoreImpls :
       kv = [impl |-> impl, own |-> EmptyDoc, given |-> EmptyDoc,
             op |-> "none", id |-> "", result |-> Object(EmptyDoc)]

\* get(id)
StoreGet(id) ==
  /\ kv' = [kv EXCEPT !.op = "get", !.id = id, !.result = GetResult(kv.own, id)]
  /\ UNCHANGED <<config, files, memSessions, heap, run>>

\* set(id, session)
StoreSet(id, doc) ==
  /\ kv' = [kv EXCEPT
              !.own = Kept(kv.impl, [x \in DOMAIN kv.own \cup {id} |->
                                       IF x = id THEN doc ELSE kv.own[x]]),
              !.given = [x \in DOMAIN kv.given \cup {id} |->
                           IF x = id THEN doc ELSE kv.given[x]],
              !.op = "set", !.id = id]
  /\ UNCHANGED <<config, files, memSessions, heap, run>>

\* clear(id)
StoreClear(id) ==
  /\ kv' = [kv EXCEPT
              !.own = Kept(kv.impl, [x \in DOMAIN kv.own \ {id} |-> kv.own[x]]),
              !.given = [x \in DOMAIN kv.given \ {id} |-> kv.given[x]],
              !.op = "clear", !.id = id]
  /\ UNCHANGED <<config, files, memSessions, heap, run>>

NextStore ==
  \/ \E id \in StoreIds : StoreGet(id)
  \/ \E id \in StoreIds, doc \in Docs : StoreSet(id, doc)
  \/ \E id \in StoreIds : StoreClear(id)

SpecStore == InitStore /\ [][NextStore]_vars

\* a bot on the file store whose callbacks await a send, so that a second
\* delivery is handled while the handler of the first is suspended
RaceEvents == {MessageEvent(u, t) : u \in Users, t \in {<<"a", "b">>, <<"b">>}}

NextRace ==
  \/ \E n \in 1..MaxSteps : Register("registration", n)
  \/ \E h \in SceneHandlers : On("message", h)
  \/ Start
  \/ parked.status # "resumed" /\ \E e \in RaceEvents : Post(<<e>>)
  \/ \E e \in RaceEvents : Receive(e)
  \/ RunnerEnd
  \/ ChainDone
  \/ \E ret \in Rets, b \in CursorKeeping(MaxSteps) : MessageCall(ret, b)
  \/ Yield
  \/ Resume
  \/ MessageSkip
  \/ MessageDone
  \/ PostbackNone
  \/ Save
  \/ Ack

SpecRace == InitDispatch /\ [][NextRace]_vars

\* a bot with the scene interceptor and interceptors of its own that write
\* the session
NextLive ==
  \/ \E m \in {"write", "scene"} : Use(m)
  \/ \E n \in 0..MaxSteps : Register("registration", n)
  \/ On("message", Handler("command", <<Trig(FALSE, <<"a", "b">>)>>, "registration"))
  \/ Start
  \/ \E e \in RaceEvents : Post(<<e>>)
  \/ \E e \in RaceEvents : Receive(e)
  \/ RunnerEnd
  \/ MwWrite
  \/ \E b \in CursorKeeping(MaxSteps) : MwSceneResume(b)
  \/ MwSceneNext
  \/ ReturnWrite
  \/ ReturnScene
  \/ ChainDone
  \/ \E ret \in Rets, b \in CursorKeeping(MaxSteps) : MessageCall(ret, b)
  \/ MessageSkip
  \/ MessageDone
  \/ PostbackNone
  \/ Save
  \/ Ack

SpecLive == Init /\ [][NextLive]_vars

\* a bot whose handlers reply to the user, with sends that fail
NextReply ==
  \/ \E t \in HearsTrigs : Hears(t, "cb")
  \/ On("message", Handler("on", <<>>, "cb"))
  \/ Start
  \/ \E e \in Events : Post(<<e>>)
  \/ \E e \in Events : Receive(e)
  \/ RunnerEnd
  \/ ChainDone
  \/ \E ok \in BOOLEAN, ret \in Rets : MessageReply(ok, ret)
  \/ MessageSkip
  \/ MessageDone
  \/ PostbackNone
  \/ \E ret \in Rets : PostbackAction(ret)
  \/ PostbackDone
  \/ Save
  \/ Ack

SpecReply == InitDispatch /\ [][NextReply]_vars

\* a session an earlier process left in a session file: in the scene, at step 0
LeftBehind ==
  [scene |-> "registration", hasStep |-> TRUE, step |-> 0, keys |-> {}]

\* a process that finds the session files of an earlier one
InitPersist ==
  /\ InitProcess /\ kv = NoKv
  /\ sceneStore \in SceneStores
  /\ \E s \in {EmptySession, LeftBehind} : files = [p \in Paths |-> [u \in Senders |-> s]]

\* a bot whose scene interceptor runs step handlers that may throw, with
\* interceptors that throw and an error handler
NextPersist ==
  \/ \E m \in {"scene", "throw"} : Use(m)
  \/ \E n \in 0..MaxSteps : Register("registration", n)
  \/ Catch
  \/ On("message", Handler("on", <<>>, "cb"))
  \/ Start
  \/ \E e \in DeliveryEvents : Post(<<e>>)
  \/ \E e \in Events : Receive(e)
  \/ RunnerEnd
  \/ MwThrow
  \/ \E b \in CursorKeeping(MaxSteps) : MwSceneResume(b)
  \/ \E b \in CursorKeeping(MaxSteps) : MwSceneThrow(b)
  \/ MwSceneNext
  \/ ReturnScene
  \/ Unwind
  \/ Reject
  \/ ChainDone
  \/ \E ret \in Rets, b \in StepBehaviours(0) : MessageCall(ret, b)
  \/ MessageSkip
  \/ MessageDone
  \/ PostbackNone
  \/ \E ret \in Rets : PostbackAction(ret)
  \/ PostbackDone
  \/ Save
  \/ Ack

SpecPersist == InitPersist /\ [][NextPersist]_vars

\* ---------------------------------------------- the methods of Scene, alone
\* every session a handler or a file can hold
Sessions ==
  [scene : {NoScene} \cup SceneNames, hasStep : {TRUE}, step : 0..(MaxSteps + 1),
   keys : SUBSET DataKeys]
    \cup [scene : {NoScene} \cup SceneNames, hasStep : {FALSE}, step : {0},
          keys : SUBSET DataKeys]

\* a context with any session, and a scene of any length
InitScene ==
  /\ InitBot
  /\ sceneStore = [type |-> "memory", path |-> ""]

\* a method of the scene "registration" is called on ctx: pc names the method
\* that returned last, loaded is the session it was called with
SceneCall(method, c) ==
  /\ pc \in {"scene", "entered", "handled", "left"}
  /\ heap' = [heap EXCEPT ![ctx.session] = c.session]
  /\ ctx' = [ctx EXCEPT !.scene = c.scene, !.stopped = c.stopped]
  /\ calls' = c.calls
  /\ loaded' = heap[ctx.session]
  /\ pc' = method
  /\ UNCHANGED <<config, files, memSessions, event, delivery, index, arg, stack, handled, hidx, parked, kv>>

\* a Context is built for an event, with a session that holds anything
NewContext(e, session, attached, stopped) ==
  /\ pc = "idle" /\ started
  /\ event' = e
  /\ heap' = [heap EXCEPT ![1] = session]
  /\ ctx' = [session |-> 1, scene |-> attached, stopped |-> stopped]
  /\ calls' = <<>> /\ loaded' = session
  /\ pc' = "scene"
  /\ UNCHANGED <<config, files, memSessions, delivery, index, arg, stack, handled, hidx, parked, kv>>

TheScene == "registration"
TheSteps == scenes[TheScene].n
Here == View(ctx, heap, event.text, <<>>)

OpEnter(b) ==
  /\ b \in StepBehaviours(TheSteps)
  /\ SceneCall("entered", SceneEnter(TheScene, TheSteps, Here, b))

OpHandle(b) ==
  /\ b \in StepBehaviours(TheSteps)
  /\ SceneCall("handled", Handle(TheSteps, Here, b))

OpLeave == SceneCall("left", Leave(Here))

NextScene ==
  \/ \E n \in 0..MaxSteps : Register(TheScene, n)
  \/ Start
  \/ \E e \in Events, session \in Sessions, attached \in {NoScene, TheScene},
        stopped \in BOOLEAN : NewContext(e, session, attached, stopped)
  \/ \E b \in StepBehaviours(MaxSteps) : OpEnter(b)
  \/ \E b \in StepBehaviours(MaxSteps) : OpHandle(b)
  \/ OpLeave

SpecScene == InitScene /\ [][NextScene]_vars

\* ------------------------------------------------------------------- claims
TextEvent == event.type = "message" /\ event.text # <<>>
Final == heap[ctx.session]

\* the positions of the call log that are calls of the callback (k, i)
CallsOf(k, i) == {j \in 1..Len(calls) : calls[j].k = k /\ calls[j].id = i}
CallsIn(k) == {j \in 1..Len(calls) : calls[j].k = k}
StepIds == [j \in 1..Len(SelectSeq(calls, LAMBDA c : c.k = "step")) |->
              SelectSeq(calls, LAMBDA c : c.k = "step")[j].id]

\* every step handler called for the event returned something other than false
\* and left the cursor alone
Benign == \A j \in CallsIn("step") : calls[j].ret # "false" /\ calls[j].eff = "none"

\* the scene middleware ran for the event
SceneMwRan == \E i \in 1..Len(middlewares) : middlewares[i] = "scene" /\ i - 1 <= index

\* C1: at the end of a text event whose step handlers are benign, an event
\* that found the scene at step j < n has run exactly step handler j and left
\* the cursor at j + 1, and an event that found it at step n has run no step
\* handler and left an empty session; an event that entered the scene from a
\* command has run exactly step handler 0 and left the cursor at 1.
C1_Traversal ==
  (pc = "save" /\ TextEvent /\ Benign /\ SceneMwRan /\ TheScene \in Registered
     /\ TheSteps >= 1)
  => /\ (loaded.scene = TheScene /\ loaded.hasStep /\ loaded.step < TheSteps)
          => /\ StepIds = <<loaded.step>>
             /\ Cursor(Final) = [scene |-> TheScene, hasStep |-> TRUE,
                                 step |-> loaded.step + 1]
     /\ (loaded.scene = TheScene /\ loaded.hasStep /\ loaded.step >= TheSteps)
          => StepIds = <<>> /\ Final = EmptySession
     /\ (loaded.scene = NoScene
           /\ \E i \in 1..Len(handlers.message) :
                handlers.message[i].fn = TheScene /\ CallsOf("message", i) # {})
          => /\ StepIds = <<0>>
             /\ Cursor(Final) = [scene |-> TheScene, hasStep |-> TRUE, step |-> 1]

\* C2: once the chain has returned with an interceptor that did not call
\* next (runner never got past it), no action, command, hears or on callback
\* is called for the event.
C2_ShortCircuit ==
  (pc \in {"message", "postback", "pbloop", "save"} /\ index < Len(middlewares))
  => CallsIn("message") \cup CallsIn("action") \cup CallsIn("postback") = {}

\* the on('message') callbacks called so far all returned something other
\* than true
NoGenericTrue ==
  \A j \in CallsIn("message") :
    handlers.message[calls[j].id].kind = "on" => calls[j].ret # "true"

\* C3: at the end of a text event in which no on('message') callback returned
\* true, every handler registered with on('message') was called exactly once.
C3_GenericAlwaysRun ==
  (pc = "save" /\ TextEvent /\ NoGenericTrue)
  => \A i \in 1..Len(handlers.message) :
       handlers.message[i].kind = "on" => Cardinality(CallsOf("message", i)) = 1

\* the registered handlers of a kind whose trigger matches the text
Matching(kinds) ==
  {i \in 1..Len(handlers.message) :
     handlers.message[i].kind \in kinds /\ AnyMatch(handlers.message[i], event.text)}
First(S) == CHOOSE i \in S : \A j \in S : i <= j

\* the text equals a string trigger of some registered command
EqualsStringTrigger ==
  \E i \in 1..Len(handlers.message) :
    /\ handlers.message[i].kind = "command"
    /\ \E t \in 1..Len(handlers.message[i].trigs) :
         ~handlers.message[i].trigs[t].re /\ handlers.message[i].trigs[t].pat = event.text

\* a handler registered before handler i returned true for the event
ReturnedTrueBefore(i) ==
  \E h \in 1..(i - 1) :
    \/ handlers.message[h].kind # "on" /\ AnyMatch(handlers.message[h], event.text)
    \/ handlers.message[h].kind = "on"
         /\ \E j \in CallsOf("message", h) : calls[j].ret = "true"

CommandCalls ==
  {j \in CallsIn("message") : handlers.message[calls[j].id].kind = "command"}

\* C5: for a message event at most one command callback is called, and it is
\* that of the first registered command whose trigger matches the text.
C5_OneCommand ==
  event.type = "message"
  => /\ Cardinality(CommandCalls) <= 1
     /\ \A j \in CommandCalls : calls[j].id = First(Matching({"command"}))

C5_Witness ==
  /\ pc = "save"
  /\ Cardinality(Matching({"command"})) >= 2
  /\ CommandCalls # {}

LastFor(p) ==
  IF \E i \in 1..Len(areg) : p \in Range(areg[i])
  THEN CHOOSE i \in 1..Len(areg) :
         p \in Range(areg[i]) /\ \A j \in 1..Len(areg) : p \in Range(areg[j]) => j <= i
  ELSE 0

\* C7: once the action lookup of a postback event with payload p is over,
\* the callback last registered for p was called exactly once if there is one,
\* no other action callback was called, and it was called before any
\* on('postback') callback; no action callback is called for another event.
C7_ActionFirst ==
  /\ event.type # "postback" => CallsIn("action") = {}
  /\ (event.type = "postback" /\ pc \in {"pbloop", "save"})
       => /\ \A j \in CallsIn("action") : calls[j].id = LastFor(event.payload)
          /\ Cardinality(CallsIn("action")) = IF LastFor(event.payload) # 0 THEN 1 ELSE 0
          /\ \A i \in CallsIn("action"), j \in CallsIn("postback") : i < j

C7_Witness ==
  /\ pc = "save" /\ event.type = "postback"
  /\ Cardinality({i \in 1..Len(areg) : event.payload \in Range(areg[i])}) = 2
  /\ CallsIn("action") # {} /\ CallsIn("postback") # {}

\* C8: when enter of a scene with at least one step has returned, exactly one
\* step handler was called, the one at index 0, and it saw the scene's name
\* and step 0 in the session and the scene attached to the context.
C8_EnterRunsStepZero ==
  (pc = "entered" /\ TheSteps >= 1)
  => /\ Len(calls) = 1
     /\ calls[1].k = "step" /\ calls[1].id = 0
     /\ calls[1].cur = [scene |-> TheScene, hasStep |-> TRUE, step |-> 0]
     /\ calls[1].att = TheScene

C8_Witness ==
  /\ pc = "entered" /\ TheSteps >= 1
  /\ loaded.scene = TheScene /\ loaded.hasStep /\ loaded.step > TheSteps
  /\ loaded.keys # {}
  /\ Len(calls) = 1

\* C9, as stated: when handle has returned and its step handler returned
\* false, session.step is what it was before the call.
C9_FalseKeepsStep ==
  (pc = "handled" /\ Len(calls) = 1 /\ calls[1].ret = "false")
  => Final.hasStep = loaded.hasStep /\ Final.step = loaded.step

\* C9, amended: handle adds nothing to what the handler left: the cursor is
\* as before when the handler did not write it, the assigned index when it
\* assigned one, and gone when it called leave.
C9_FalseNoIncrement ==
  (pc = "handled" /\ Len(calls) = 1 /\ calls[1].ret = "false")
  => CASE calls[1].eff = "none" ->
            Final.hasStep = loaded.hasStep /\ Final.step = loaded.step
       [] calls[1].eff = "goto" -> Final.hasStep /\ Final.step = calls[1].to
       [] OTHER -> Final = EmptySession

C9_Witness ==
  /\ pc = "handled" /\ Len(calls) = 1 /\ calls[1].ret = "false"
  /\ calls[1].eff = "none" /\ event.text # <<>>
  /\ loaded.hasStep /\ loaded.step = 1 /\ Final.step = 1

\* C10: when handle has run the step at a numeric index k below the step
\* count and the handler left session.step at k, session.step is k + 1 if the
\* event carried text and the handler did not return false, and k otherwise.
C10_AutoAdvance ==
  (pc = "handled" /\ loaded.hasStep /\ loaded.step < TheSteps /\ Len(calls) = 1
     /\ (calls[1].eff = "none" \/ (calls[1].eff = "goto" /\ calls[1].to = loaded.step)))
  => /\ Final.hasStep
     /\ Final.step = IF event.text # <<>> /\ calls[1].ret # "false"
                     THEN loaded.step + 1
                     ELSE loaded.step

C10_Witness ==
  /\ pc = "handled" /\ loaded.hasStep /\ loaded.step = 1 /\ TheSteps = 2
  /\ Len(calls) = 1 /\ calls[1].eff = "none" /\ calls[1].ret = "undefined"
  /\ event.text # <<>>
  /\ Final.step = 2

\* the scene operation ran one step handler, which returned something other
\* than false
OneStepRan == pc \in {"handled", "entered"} /\ Len(calls) = 1 /\ calls[1].ret # "false"

\* C11: when handle has run a step handler that returned something other than
\* false and itself called leave, the session is empty (no step key) and the
\* scene detached; when the handler assigned another step index, session.step
\* is that index, the scene name is the one the handler saw and no data key
\* is lost: handle incremented nothing.
C11_NoDoubleAdvance ==
  OneStepRan
  => /\ calls[1].eff = "leave" => Final = EmptySession /\ ctx.scene = NoScene
     /\ (calls[1].eff = "goto" /\ calls[1].to # calls[1].id)
          => /\ Final.hasStep /\ Final.step = calls[1].to
             /\ Final.scene = calls[1].cur.scene
             /\ loaded.keys \subseteq Final.keys

C11_Witness ==
  /\ pc = "handled" /\ OneStepRan /\ event.text # <<>>
  /\ calls[1].eff = "goto" /\ calls[1].to = calls[1].id + 1
  /\ Final.step = calls[1].to

\* handle has run the last step, which let the index be advanced to the step
\* count, or a step that assigned the step count to session.step
LastStepDone ==
  /\ pc = "handled" /\ Len(calls) = 1
  /\ \/ /\ calls[1].eff = "none" /\ loaded.hasStep /\ calls[1].id = TheSteps - 1
        /\ event.text # <<>> /\ calls[1].ret # "false"
     \/ calls[1].eff = "goto" /\ calls[1].to = TheSteps /\ calls[1].to # calls[1].id

\* C12, as stated: when handle returns after a step handler's execution with
\* the step index equal to the step count, the session is empty and ctx.scene
\* is detached.
C12_CompletesInSameCall ==
  LastStepDone => Final = EmptySession /\ ctx.scene = NoScene

\* C12, amended: that handle call returns with the scene name kept, the step
\* index equal to the step count and ctx.scene as the handler left it; it is a
\* handle call that finds the step index at or beyond the step count that
\* runs no handler, empties the session, detaches the scene and sets the
\* stopped flag.
C12_CompletesOnNextCall ==
  /\ LastStepDone
       => /\ Final.scene = calls[1].cur.scene
          /\ Final.hasStep /\ Final.step = TheSteps
          /\ loaded.keys \subseteq Final.keys
          /\ ctx.scene = calls[1].att
  /\ (pc = "handled" /\ loaded.hasStep /\ loaded.step >= TheSteps)
       => /\ calls = <<>>
          /\ Final = EmptySession /\ ctx.scene = NoScene /\ ctx.stopped

C12_Witness ==
  /\ LastStepDone /\ calls[1].eff = "none" /\ TheSteps = 2
  /\ loaded.scene = TheScene /\ loaded.keys # {}
  /\ Final.scene = TheScene /\ Final.step = 2 /\ ctx.scene = TheScene

\* what SceneManager.sessionStore holds for user u
Persisted(u) ==
  IF sceneStore.type = "memory"
  THEN IF memSessions[u] = NoObj THEN EmptySession ELSE heap[memSessions[u]]
  ELSE files[sceneStore.path][u]

\* the calls of handlers that enter a scene
EnterCalls ==
  {j \in CallsIn("message") : handlers.message[calls[j].id].fn # "cb"}

\* leave was the last scene operation of the event: it was called and no
\* handler entered a scene since, or the step such a handler started called it
LeftLast ==
  /\ pc # "idle" /\ ctx.stopped
  /\ \/ EnterCalls = {}
     \/ /\ CallsIn("step") # {}
        /\ \A j \in CallsIn("step") :
             (\A i \in CallsIn("step") : i <= j) => calls[j].eff = "leave"

\* C13: once leave was called, by a step handler or by handle at the end of
\* the scene, the session object of the context has no key left whatever it
\* held, ctx.scene is null and the stopped flag is set; when the scene
\* middleware returns after it, the store holds that emptied session (for the
\* memory store, the very object of the context).
C13_LeaveClears ==
  /\ LeftLast => Final = EmptySession /\ ctx.scene = NoScene
  /\ (pc = "return" /\ ctx.stopped)
       => /\ Persisted(event.sender) = EmptySession
          /\ sceneStore.type = "memory" => memSessions[event.sender] = ctx.session

C13_Witness ==
  /\ pc = "return" /\ ctx.stopped
  /\ loaded.scene = TheScene /\ loaded.keys # {}
  /\ CallsIn("step") # {}
  /\ Final = EmptySession /\ Persisted(event.sender) = EmptySession

\* the sessions the stores hold
StoredSessions ==
  {files[p][u] : p \in Paths, u \in Senders}
    \cup {heap[memSessions[u]] : u \in {v \in Senders : memSessions[v] # NoObj}}

MwCallsThat(eff) == {j \in CallsIn("mw") : calls[j].eff = eff}

\* C15: for an event every registered interceptor is called at most once,
\* however many times interceptors call next.
C15_AtMostOnce ==
  \A i \in 0..(Len(middlewares) - 1) : Cardinality(CallsOf("mw", i)) <= 1

C15_Witness ==
  /\ pc = "message"
  /\ \E i \in 1..(Len(middlewares) - 1) :
       /\ middlewares[i] = "twice"
       /\ Cardinality(CallsOf("mw", i - 1)) = 1
       /\ Cardinality(CallsOf("mw", i)) = 1

\* C16: once an interceptor has returned without calling next, no
\* interceptor registered after it is called for the event.
C16_NoLaterInterceptor ==
  \A j \in MwCallsThat("return") : \A k \in CallsIn("mw") : calls[k].id <= calls[j].id

C16_Witness ==
  /\ pc = "message"
  /\ \E j \in MwCallsThat("return") :
       /\ calls[j].id >= 1 /\ calls[j].id + 1 < Len(middlewares)
       /\ middlewares[1] = "twice"

\* a callback of the dispatch threw
HandlerThrew == \E j \in CallsIn("message") : calls[j].ret = "throw"

\* C17: with an error handler registered, an interceptor that throws is
\* followed at once by one call of the error handler, made by the catch of
\* its own runner; the error handler is called once for the event and no
\* error travels on (none but that of a throwing dispatched callback).
C17_HandlerOnce ==
  (errorHandler /\ MwCallsThat("throw") # {})
  => /\ \A j \in MwCallsThat("throw") :
          j < Len(calls) /\ calls[j + 1].k = "catch" /\ calls[j + 1].id = calls[j].id
     /\ Cardinality(CallsIn("catch")) = Cardinality(MwCallsThat("throw"))
     /\ Cardinality(CallsIn("catch")) = 1
     /\ pc = "throw" => HandlerThrew

C17_Witness ==
  /\ errorHandler /\ pc = "message"
  /\ \E j \in MwCallsThat("throw") : calls[j].id >= 1
  /\ Cardinality(CallsIn("catch")) = 1

\* C18: without an error handler, once an interceptor has thrown the error
\* travels out of the chain: no interceptor is called after it, no action,
\* command, hears or on callback is called, and the handler never gets to
\* the dispatch or to the final session save of the event.
C18_UncaughtAborts ==
  (~errorHandler /\ MwCallsThat("throw") # {})
  => /\ pc = "throw"
     /\ \A j \in MwCallsThat("throw") : j = Len(calls)
     /\ CallsIn("message") \cup CallsIn("action") \cup CallsIn("postback") = {}

C18_Witness ==
  /\ ~errorHandler /\ pc = "throw" /\ stack = <<>>
  /\ \E j \in MwCallsThat("throw") : calls[j].id >= 1 /\ calls[j].id + 1 < Len(middlewares)

\* C19: with an error handler registered, a dispatched callback that throws
\* is followed by a call of the error handler.
C19_HandlerErrorsCaught ==
  (errorHandler /\ HandlerThrew) => CallsIn("catch") # {}

\* C20: whenever the POST /webhook handler is at rest, every entry of the
\* last delivery was processed and the delivery was answered.
C20_FailurePerEvent ==
  pc = "idle" => delivery.rest = <<>> /\ delivery.res # "pending"

\* handle was called on a session that names the scene and has no numeric
\* step, for an event with text, and ran a handler that returned something
\* other than false and left the cursor alone
AbsentStepRun ==
  /\ pc = "handled" /\ TheSteps >= 1
  /\ loaded.scene = TheScene /\ ~loaded.hasStep
  /\ event.text # <<>>
  /\ Len(calls) = 1 /\ calls[1].ret # "false" /\ calls[1].eff = "none"

\* C30: such a handle call has run the step-0 handler and leaves the step
\* index at 1.
C30_AbsentStepAdvances ==
  AbsentStepRun => calls[1].id = 0 /\ Final.hasStep /\ Final.step = 1

\* the scene interceptor of the event is over: it returned or threw, and
\* nothing of the chain is pending
SceneMwOver ==
  /\ SceneMwRan /\ stack = <<>>
  /\ \/ pc = "message" /\ hidx = 1
     \/ pc = "throw"

\* the store of the SceneManager holds the session of the context
SceneStoreHolds(u) ==
  IF sceneStore.type = "memory"
  THEN memSessions[u] = ctx.session
  ELSE files[sceneStore.path][u] = Final

\* C21: once the scene interceptor of an event is over, whether it returned
\* or an error left it, its store holds the session of the context.
C21_SavedOnEveryPath ==
  SceneMwOver => SceneStoreHolds(event.sender)

\* the calls of the scene interceptor in the call log, and the last of them
SceneMwCalls == {j \in CallsIn("mw") : middlewares[calls[j].id + 1] = "scene"}
LastSceneMw == CHOOSE j \in SceneMwCalls : \A k \in SceneMwCalls : k <= j

\* the scene interceptor called handle: it returned after it, or the step
\* handler threw
Resumed(j) == calls[j].eff \in {"return", "throw"}

\* runner(i + 1) was called for the interceptor of call j, or is being called
Proceeded(j) == index > calls[j].id \/ (pc = "runner" /\ arg = calls[j].id + 1)

\* C29: the scene interceptor resumes the scene exactly when the session it
\* loaded names a registered scene; when it resumes, handle runs once (at
\* most one step handler) and runner(i + 1) is never called; when it does
\* not, no step handler runs and runner(i + 1) is called, once.
C29_ResumeOrProceed ==
  \A j \in SceneMwCalls :
    /\ j = LastSceneMw =>
         (Resumed(j) <=> loaded.scene # NoScene /\ loaded.scene \in Registered)
    /\ Resumed(j) =>
         /\ ~Proceeded(j)
         /\ Cardinality(CallsIn("step")) <= 1
         /\ \A k \in CallsIn("step") \cup CallsIn("mw") : k <= j + 1
    /\ ~Resumed(j) =>
         /\ calls[j].eff = "next" /\ Proceeded(j)
         /\ CallsIn("step") = {}
         /\ Cardinality(CallsOf("mw", calls[j].id)) = 1

C29_Witness ==
  /\ pc = "message" /\ SceneMwCalls # {}
  /\ loaded.scene # NoScene /\ loaded.scene \notin Registered
  /\ calls[LastSceneMw].eff = "next" /\ index > calls[LastSceneMw].id

\* C22: the session the scene interceptor loads for an event is the session
\* the previous event of the user ended with (the one the bot loaded for this
\* event): when that session records a registered scene, written by a
\* dispatched enter handler, the interceptor resumes that scene.
C22_MutationVisibleNextEvent ==
  \A j \in SceneMwCalls :
    (j = LastSceneMw /\ Cardinality(SceneMwCalls) = 1) =>
      /\ Cursor(loaded) = calls[j].cur
      /\ calls[j].cur.scene \in Registered => Resumed(j)

\* the calls of dispatched callbacks whose send failed
FailedSends == {j \in CallsIn("message") : calls[j].eff = "sendfail"}

\* C27: a failed send raises nothing in the callback that awaits it: the
\* callback returns what it returns, no error is in flight, the loop goes
\* on to the handlers after it (each is called or skipped by the handled
\* flag), and the final session save is reached with the loop run to its end.
C27_SendNeverThrows ==
  FailedSends # {} =>
    /\ \A j \in FailedSends : calls[j].ret # "throw"
    /\ pc \in {"message", "postback", "save"}
    /\ pc # "message" => hidx > Len(handlers.message)
    /\ \A j \in FailedSends : calls[j].ret # "true" /\ ~handled =>
         \A i \in (calls[j].id + 1)..(hidx - 1) : CallsOf("message", i) # {}

C27_Witness ==
  /\ pc = "save" /\ Len(handlers.message) >= 2
  /\ \E j \in FailedSends : calls[j].id = 1 /\ CallsOf("message", 2) # {}

\* C28: at the end of a message event, every callback registered for the
\* kind of attachment the message carries has been called, whether or not
\* the message has text.
C28_AttachmentCallbacksRun ==
  (pc = "save" /\ event.type = "message") =>
    \A i \in 1..Len(handlers.message) :
      (handlers.message[i].kind \in AttachmentKinds
         /\ Accepts(handlers.message[i].kind, event.attachment))
        => CallsOf("message", i) # {}

\* the entries of the delivery that carry a sender id
WithSender == {i \in 1..Len(delivery.body) : delivery.body[i].sender # ""}

\* C26: once a request is over, a POST with object 'page' has been answered
\* 200 with the event of every entry that has a sender processed, entries
\* without a sender id skipped; a POST with another object has been answered
\* 404 with no event processed; a GET has been answered with the challenge
\* exactly when its mode is 'subscribe' and its token the verify token, and
\* with 403 otherwise.
C26_AckCodes ==
  pc = "idle" =>
    /\ delivery.object = "page" =>
         /\ delivery.res = "200" /\ delivery.rest = <<>>
         /\ delivery.done = Cardinality(WithSender)
    /\ delivery.object = "other" => delivery.res = "404" /\ delivery.done = 0
    /\ delivery.object = "get" =>
         /\ delivery.res \in {"challenge", "403"}
         /\ delivery.res = "challenge" <=>
              (delivery.mode = "subscribe" /\ delivery.token = VerifyToken)

\* C23: a get of an identifier that was never set, or was cleared after its
\* last set, returns an empty mapping.
C23_UnknownIdIsEmpty ==
  (kv.op = "get" /\ kv.id \notin DOMAIN kv.given) => kv.result = Object(EmptyDoc)

\* C24: in every store state, get(id) returns for every identifier the
\* session given to its latest set that no clear followed, and an empty
\* mapping when there is none; so a set or clear of one identifier changes
\* what get returns for no other.
C24_ReferenceBehaviour ==
  kv.op = "get" =>
    \A id \in StoreIds :
      GetResult(kv.own, id) =
        IF id \in DOMAIN kv.given THEN Object(kv.given[id]) ELSE Object(EmptyDoc)

\* the event of the suspended handler calls no handler that enters a scene
NoEnterFor(e) ==
  \A i \in 1..Len(handlers.message) :
    handlers.message[i].fn # "cb" => ~AnyMatch(handlers.message[i], e.text)

\* the handler that was suspended has gone on and has saved its session
ResumedDone == parked.status = "resumed" /\ pc \in {"entry", "idle"}

\* C25: when a handler that loaded the session of its user was suspended,
\* went on after other deliveries were handled, and itself changed nothing
\* in the session, the session file holds after its save the session it had
\* loaded, whatever the deliveries in between wrote for that user.
C25_LastWriterWins ==
  (ResumedDone /\ NoEnterFor(parked.event)) =>
    files[SESSION_FILE][parked.event.sender] = parked.loaded

\* a delivery handled in between stored a scene cursor for the user, and
\* the file does not hold it any more
C25_Witness ==
  /\ ResumedDone /\ pc = "idle" /\ delivery.res = "200"
  /\ parked.seen.scene = "registration" /\ parked.loaded.scene = NoScene
  /\ files[SESSION_FILE][parked.event.sender].scene = NoScene

\* C31: no step handler is called on a context on which leave has been
\* called before in the same event.
C31_StoppedForTheEvent ==
  \A j \in CallsIn("step") : ~calls[j].stopped

\* an interceptor that writes the session has run for the event
WriterRan ==
  \E j \in CallsIn("mw") : middlewares[calls[j].id + 1] = "write"

\* C32: the key an interceptor wrote into ctx.session is in the session the
\* event is saved with, unless a scene was left during the event (leave
\* deletes every key).
C32_OneLiveSession ==
  (pc = "save" /\ WriterRan /\ ~ctx.stopped) => "firstName" \in Final.keys

\* the handler calls of the dispatch loops in the call log
DispatchCalls == CallsIn("message") \cup CallsIn("action") \cup CallsIn("postback")

\* the event is in its dispatch part or at its save
Dispatching == pc \in {"message", "postback", "pbloop", "save"}

\* C33: within an event interceptors start in registration order and
\* handlers of a list are called in registration order; dispatch goes on
\* only with the whole chain over (no interceptor waits for its next), so
\* every interceptor call precedes every handler call, and a scene
\* interceptor that has run has saved the session when dispatch begins.
C33_Ordering ==
  /\ \A j, k \in CallsIn("mw") : j < k => calls[j].id < calls[k].id
  /\ \A j, k \in CallsIn("message") : j < k => calls[j].id < calls[k].id
  /\ \A j, k \in CallsIn("postback") : j < k => calls[j].id < calls[k].id
  /\ \A j \in CallsIn("mw"), k \in DispatchCalls : j < k
  /\ \A j \in CallsIn("action"), k \in CallsIn("postback") : j < k
  /\ Dispatching => stack = <<>>
  /\ (pc = "message" /\ hidx = 1 /\ SceneMwCalls # {}) => SceneStoreHolds(event.sender)

C33_Witness ==
  /\ pc = "save" /\ Len(middlewares) >= 2
  /\ \E j \in SceneMwCalls : calls[j].eff = "next" /\ calls[j].id = 1
  /\ CallsIn("message") # {}

\* C34: with an error handler, after an interceptor has thrown (and no
\* dispatched callback has), no error is in flight and none reaches an
\* upstream interceptor, so each of them returns from its next and runs to
\* its end; dispatch begins with the chain over and calls the handlers, and
\* the event gets to its final save.
C34_AbsorbedContinues ==
  (errorHandler /\ MwCallsThat("throw") # {} /\ ~HandlerThrew) =>
    /\ pc \in {"runner", "return", "message", "postback", "pbloop", "save"}
    /\ Cardinality(CallsIn("catch")) = 1
    /\ Dispatching => stack = <<>>
    /\ (pc = "save" /\ event.text # <<>> /\ handlers.message # <<>>) =>
         CallsIn("message") # {}

C34_Witness ==
  /\ errorHandler /\ pc = "save" /\ ~HandlerThrew
  /\ \E j \in MwCallsThat("throw") : calls[j].id >= 1

\* enter has returned and no step handler it called has called leave
EnteredNoLeave ==
  pc = "entered" /\ \A j \in CallsIn("step") : calls[j].eff # "leave"

\* C36 as stated: after enter, every data key the session had before is
\* still there, whatever the scene.
C36_EnterKeepsKeys ==
  EnteredNoLeave => loaded.keys \subseteq Final.keys

\* C36, amended: for a scene with at least one step, every data key the
\* session had before enter is still there after it, and the session names
\* the scene; a scene without steps is left by enter at once, and the
\* session is empty.
C36_EnterKeepsKeysOfSteppedScene ==
  EnteredNoLeave =>
    IF TheSteps >= 1
    THEN loaded.keys \subseteq Final.keys /\ Final.scene = TheScene
    ELSE Final = EmptySession /\ calls = <<>>

C36_Witness ==
  /\ EnteredNoLeave /\ TheSteps >= 1
  /\ loaded.scene = TheScene /\ loaded.hasStep /\ loaded.step = 1
  /\ loaded.keys # {} /\ Final.keys = loaded.keys

\* the position in body.entry of the entry the loop has reached
Current == Len(delivery.body) - Len(delivery.rest)

\* the entries among the first k of the delivery that carry no event
EmptyEntries(k) == Cardinality({i \in 1..k : delivery.batch[i] = <<>>})

\* C37: within one delivery the entries are processed one after another:
\* while an entry's event is in the chain, in dispatch or before its save,
\* it is the first messaging event of that entry, every earlier entry that
\* carried an event has been saved, and the session loaded for it is the one
\* the store holds; when the delivery is answered, one save per entry with
\* an event has been made.
C37_EntriesInTurn ==
  /\ (delivery.batch # <<>> /\ pc \notin {"idle", "entry"}) =>
        /\ Current >= 1
        /\ delivery.batch[Current] # <<>>
        /\ event = delivery.batch[Current][1]
        /\ delivery.done = Current - 1 - EmptyEntries(Current)
        /\ loaded = files[SESSION_FILE][event.sender]
  /\ (delivery.batch # <<>> /\ delivery.res = "200") =>
        delivery.done = Len(delivery.batch) - EmptyEntries(Len(delivery.batch))

C37_Witness ==
  /\ pc = "save" /\ Current = 2 /\ delivery.done = 1
  /\ Len(delivery.batch[1]) = 2 /\ delivery.batch[1][2] # delivery.batch[2][1]
  /\ loaded.keys # {} /\ CallsIn("message") # {}

\* what the stores hold for user u: the entry of each session file, and the
\* object of the in-memory store
StoredFor(u) ==
  [file |-> [p \in Paths |-> files[p][u]],
   has |-> memSessions[u] # NoObj,
   mem |-> IF memSessions[u] = NoObj THEN EmptySession ELSE heap[memSessions[u]]]

\* C35: user isolation: whatever the interleaving of the events of different
\* users, a step changes what the stores hold for a user only while an event
\* of that user is being processed, and the session loaded for an event is
\* the one stored for its sender.
C35_UserIsolation ==
  [][/\ \A u \in Senders : StoredFor(u)' # StoredFor(u) => event.sender = u
     /\ (pc = "entry" /\ pc' = "runner") => loaded' = files[SESSION_FILE][event'.sender]]_vars

C35_Witness ==
  /\ parked.status = "parked" /\ pc = "save"
  /\ event.sender # parked.event.sender
  /\ Final.scene # NoScene /\ parked.session.scene # NoScene
  /\ Final # parked.session
  /\ sceneStore.type = "memory" /\ parked.stored
  /\ memSessions[event.sender] = ctx.session

====
